---- MODULE Spec2Model ----
(***************************************************************************)
(* The persistent schema of the food-ordering platform (models.py) as a    *)
(* state machine over a relational store.                                   *)
(*                                                                          *)
(* The state is the content of the twelve tables.  The operations are the  *)
(* ones every model class inherits: a validated write of a new row         *)
(* (Create), a validated write of an existing row (Update), delete()       *)
(* (Delete) and Address.get_full_address() (GetFullAddress).  Their        *)
(* behaviour is decided by what models.py declares: primary keys, unique   *)
(* fields, validators, choices, null=, auto_now / auto_now_add and the     *)
(* on_delete rule of every foreign key.                                     *)
(*                                                                          *)
(* A foreign key declared on_delete=DO_NOTHING makes delete() issue the    *)
(* DELETE without touching the referencing rows; the FOREIGN KEY           *)
(* constraint of the column then rejects the statement while a referencing *)
(* row remains, and the enclosing transaction is rolled back.              *)
(*                                                                          *)
(* Columns that carry no rule of their own (description, landmark,         *)
(* longitude, price, ...) are left out of the rows.                        *)
(***************************************************************************)
EXTENDS Naturals, Sequences, FiniteSets

VARIABLES db,      \* table name -> set of rows (records)
          now,     \* the clock read by auto_now / auto_now_add
          last,    \* the last operation and what it returned
          out      \* value returned by the last call of get_full_address()

vars == <<db, now, last, out>>

(***************************************************************************)
(* Bounds of the model.                                                     *)
(***************************************************************************)
MaxId == 2      \* identifiers are drawn from 1..MaxId
MaxRows == 6    \* rows in the whole store
MaxTime == 2    \* clock readings 0..MaxTime
MaxLeafId == 1  \* identifiers of the tables nothing but audit-free leaves refer to
MaxStates == 2  \* State identifiers 1..MaxStates where only State rows are written
MaxAddr == 1    \* State and Address identifiers 1..MaxAddr where addresses are formatted
MaxShort == 2   \* candidate mobile strings of every length up to MaxShort

NULL == 0

(***************************************************************************)
(* Tables (Meta.db_table of every model).                                   *)
(***************************************************************************)
Tables == {"state", "address", "user", "restaurant", "menu", "bill", "cart",
           "order", "delivery", "payment", "notification", "rating"}

\* Every model but User extends AbstractBase (User extends AbstractUser).
AbstractBase == Tables \ {"user"}

(***************************************************************************)
(* Foreign keys.                                                            *)
(***************************************************************************)
DO_NOTHING == "DO_NOTHING"
CASCADE == "CASCADE"

FK(src, field, dst, on_delete, null) ==
    [src |-> src, field |-> field, dst |-> dst, on_delete |-> on_delete, null |-> null]

\* Address.state as it would be with on_delete=CASCADE.
Address_state_cascade == FK("address", "state", "state", CASCADE, FALSE)
Address_state == FK("address", "state", "state", DO_NOTHING, FALSE)
\* User.address as it would be with on_delete=DO_NOTHING.
User_address_do_nothing == FK("user", "address", "address", DO_NOTHING, FALSE)
User_address == FK("user", "address", "address", CASCADE, FALSE)
Restaurant_address == FK("restaurant", "address", "address", CASCADE, FALSE)
\* Menu.restaurant as it would be with on_delete=CASCADE.
Menu_restaurant_cascade == FK("menu", "restaurant", "restaurant", CASCADE, FALSE)
Menu_restaurant == FK("menu", "restaurant", "restaurant", DO_NOTHING, FALSE)
Cart_fks ==
    { FK("cart", "menu", "menu", DO_NOTHING, FALSE),
      FK("cart", "user", "user", DO_NOTHING, FALSE),
      FK("cart", "restaurant", "restaurant", DO_NOTHING, FALSE) }
Order_fks ==
    { FK("order", "user", "user", DO_NOTHING, FALSE),
      FK("order", "bill", "bill", DO_NOTHING, FALSE) }
Delivery_fks ==
    { FK("delivery", "user", "user", DO_NOTHING, FALSE),
      FK("delivery", "delivery_boy", "user", DO_NOTHING, FALSE),
      FK("delivery", "user_address", "address", DO_NOTHING, FALSE),
      FK("delivery", "restaurant", "restaurant", DO_NOTHING, FALSE),
      FK("delivery", "bill", "bill", DO_NOTHING, FALSE) }
Payment_fks ==
    { FK("payment", "address", "address", DO_NOTHING, FALSE),
      FK("payment", "order", "order", DO_NOTHING, FALSE) }
Notification_fks ==
    { FK("notification", "user", "user", DO_NOTHING, FALSE),
      FK("notification", "order", "order", DO_NOTHING, FALSE) }
Rating_fks ==
    { FK("rating", "user", "user", DO_NOTHING, FALSE),
      FK("rating", "menu", "menu", DO_NOTHING, TRUE),
      FK("rating", "restaurant", "restaurant", DO_NOTHING, TRUE),
      FK("rating", "delivery_boy", "user", DO_NOTHING, FALSE) }

\* AbstractBase.created_by / updated_by; Rating sets created_by = None.
HasCreatedBy == AbstractBase \ {"rating"}
Audit_fks ==
    { FK(t, "created_by", "user", DO_NOTHING, TRUE) : t \in HasCreatedBy }
    \cup { FK(t, "updated_by", "user", DO_NOTHING, TRUE) : t \in AbstractBase }

ForeignKeys ==
    {Address_state, User_address, Restaurant_address, Menu_restaurant}
    \cup Cart_fks \cup Order_fks \cup Delivery_fks \cup Payment_fks
    \cup Notification_fks \cup Rating_fks \cup Audit_fks

(***************************************************************************)
(* The store.                                                               *)
(***************************************************************************)
Ids(d, t) == {r.id : r \in d[t]}

RowCount(d) ==
    Cardinality(UNION {{<<t, r>> : r \in d[t]} : t \in Tables})

\* An operation on row id of table t, its outcome, and for delete() the rows it
\* reports deleted (delete() returns their number per model).
Returned(op, t, id, result, gone) ==
    [op |-> op, table |-> t, id |-> id, result |-> result,
     deleted |-> [u \in Tables |-> Cardinality({x \in gone : x[1] = u})]]

Init ==
    /\ db = [t \in Tables |-> {}]
    /\ now = 0
    /\ last = Returned("none", "none", NULL, "ok", {})
    /\ out = ""

(***************************************************************************)
(* Field validation (the validators and choices declared on the fields).   *)
(* A string is a sequence of one-character strings.                         *)
(***************************************************************************)
Digits == {"0", "1", "2", "3", "4", "5", "6", "7", "8", "9"}

\* django.core.validators.MaxLengthValidator(limit)
MaxLengthValidator(limit, s) == Len(s) <= limit

\* django.core.validators.validate_integer: the pattern ^-?\d+\Z
validate_integer(s) ==
    LET body == IF Len(s) > 0 /\ s[1] = "-" THEN Tail(s) ELSE s
    IN  /\ Len(body) > 0
        /\ \A i \in 1..Len(body) : body[i] \in Digits

User_mobile_max_length == 15

\* User.mobile: blank=False, max_length=15, validators=[MaxLengthValidator(15), validate_integer]
User_mobile_valid(s) ==
    /\ Len(s) > 0
    /\ MaxLengthValidator(User_mobile_max_length, s)
    /\ validate_integer(s)

Choices(S) == [declared |-> TRUE, values |-> S]
NoChoices == [declared |-> FALSE, values |-> {}]

MALE == 1
FEMALE == 2
GENDER_CHOICES == Choices({MALE, FEMALE})
CUSTOMER == 1
DELIVERY_BOY == 2
RESTAURANT_OWNER == 3
USER_TYPE_CHOICES == Choices({CUSTOMER, DELIVERY_BOY, RESTAURANT_OWNER})
RATING_TYPES == Choices(1..6)
\* Order.status = models.SmallIntegerField(): no choices are declared.
Order_status_choices == NoChoices

\* Field.validate: a value is checked against the choices only when some are declared.
ChoicesValid(choices, v) == choices.declared => v \in choices.values

\* Model.clean_fields: TRUE when some field of the row fails its validation.
FieldErrors(t, row) ==
    CASE t = "user" ->
            \/ ~User_mobile_valid(row.mobile)
            \/ ~ChoicesValid(USER_TYPE_CHOICES, row.user_type)
            \/ (row.gender # NULL /\ ~ChoicesValid(GENDER_CHOICES, row.gender))
      [] t = "order" -> ~ChoicesValid(Order_status_choices, row.status)
      [] t = "rating" -> ~ChoicesValid(RATING_TYPES, row.rating)
      [] OTHER -> FALSE

(***************************************************************************)
(* Constraints of the columns.                                              *)
(***************************************************************************)
\* A primary key that is not checked.
PrimaryKeyViolation_unchecked(d, t, row) == FALSE

\* id = UUIDField(primary_key=True)
PrimaryKeyViolation(d, t, row) == row.id \in Ids(d, t)

\* An alias column without its UNIQUE constraint.
UniqueViolation_unchecked(d, t, row) == FALSE

\* State.alias = SlugField(unique=True)
UniqueViolation(d, t, row) ==
    /\ t = "state"
    /\ \E r \in d[t] : r.id # row.id /\ r.alias = row.alias

\* a foreign key without null=True is a NOT NULL column
NotNullViolation(t, row) ==
    \E f \in ForeignKeys : f.src = t /\ ~f.null /\ row[f.field] = NULL

\* FOREIGN KEY constraint, for one row about to be written
RowForeignKeyViolation(d, t, row) ==
    \E f \in ForeignKeys :
        /\ f.src = t
        /\ row[f.field] # NULL
        /\ row[f.field] \notin Ids(d, f.dst)

\* A store that does not enforce its foreign keys.
ForeignKeyViolation_unenforced(d) == FALSE

\* FOREIGN KEY constraint, over the whole store
ForeignKeyViolation(d) ==
    \E f \in ForeignKeys : \E r \in d[f.src] :
        /\ r[f.field] # NULL
        /\ r[f.field] \notin Ids(d, f.dst)

ConstraintViolation(d, t, row) ==
    \/ NotNullViolation(t, row)
    \/ UniqueViolation(d, t, row)
    \/ RowForeignKeyViolation(d, t, row)

(***************************************************************************)
(* delete(): the rows reached from the deleted one through foreign keys    *)
(* declared on_delete=CASCADE are deleted with it; the others are left to   *)
(* the constraint of their column.                                          *)
(***************************************************************************)
Related(d, seen) ==
    UNION { { <<f.src, r.id>> : r \in {x \in d[f.src] : <<f.dst, x[f.field]>> \in seen} }
            : f \in {g \in ForeignKeys : g.on_delete = CASCADE} }

RECURSIVE Collect(_, _)
Collect(d, seen) ==
    LET more == seen \cup Related(d, seen)
    IN  IF more = seen THEN seen ELSE Collect(d, more)

Without(d, gone) == [t \in Tables |-> {r \in d[t] : <<t, r.id>> \notin gone}]

\* The parts in the order of Meta.ordering (state, city, zip_code) instead.
get_full_address_reordered(self, d) ==
    LET state == CHOOSE s \in d["state"] : s.id = self.state
    IN  self.address_line1 \o ", " \o self.address_line2 \o ", " \o self.city
        \o ", " \o state.name \o " " \o self.zip_code

(***************************************************************************)
(* Address.get_full_address()                                               *)
(***************************************************************************)
get_full_address(self, d) ==
    LET state == CHOOSE s \in d["state"] : s.id = self.state
    IN  self.address_line1 \o ", " \o self.address_line2 \o ", " \o state.name
        \o ", " \o self.city \o " " \o self.zip_code

(***************************************************************************)
(* Operations.                                                              *)
(***************************************************************************)
\* auto_now_add / auto_now on insert: each field reads the clock in turn.
StampInsert(t, row, dt) ==
    IF t \in AbstractBase
    THEN [row EXCEPT !.created_at = now, !.updated_at = now + dt]
    ELSE row

\* created_at as it would be with auto_now=True: stamped again on every save.
StampUpdate_restamped(t, old, row) ==
    IF t \in AbstractBase
    THEN [row EXCEPT !.created_at = now, !.updated_at = now]
    ELSE row

\* On update created_at keeps the stored value; auto_now reads the clock.
StampUpdate(t, old, row) ==
    IF t \in AbstractBase
    THEN [row EXCEPT !.created_at = old.created_at, !.updated_at = now]
    ELSE row

\* A validated write of a new row.
Create(t, row, dt) ==
    /\ RowCount(db) < MaxRows
    /\ now + dt <= MaxTime
    /\ IF FieldErrors(t, row)
       THEN /\ last' = Returned("create", t, row.id, "ValidationError", {})
            /\ UNCHANGED <<db, now>>
       ELSE IF PrimaryKeyViolation(db, t, row) \/ ConstraintViolation(db, t, row)
       THEN /\ last' = Returned("create", t, row.id, "IntegrityError", {})
            /\ UNCHANGED <<db, now>>
       ELSE /\ db' = [db EXCEPT ![t] = @ \cup {StampInsert(t, row, dt)}]
            /\ now' = now + dt
            /\ last' = Returned("create", t, row.id, "ok", {})
    /\ UNCHANGED out

\* A validated write of a row that is already stored (UPDATE ... WHERE id = row.id).
Update(t, row) ==
    /\ row.id \in Ids(db, t)
    /\ LET old == CHOOSE r \in db[t] : r.id = row.id
       IN  IF FieldErrors(t, row)
           THEN /\ last' = Returned("update", t, row.id, "ValidationError", {})
                /\ UNCHANGED db
           ELSE IF ConstraintViolation(db, t, row)
           THEN /\ last' = Returned("update", t, row.id, "IntegrityError", {})
                /\ UNCHANGED db
           ELSE /\ db' = [db EXCEPT ![t] =
                            {r \in @ : r.id # row.id} \cup {StampUpdate(t, old, row)}]
                /\ last' = Returned("update", t, row.id, "ok", {})
    /\ UNCHANGED <<now, out>>

\* instance.delete()
Delete(t, id) ==
    /\ id \in Ids(db, t)
    /\ LET gone == Collect(db, {<<t, id>>})
           rest == Without(db, gone)
       IN  IF ForeignKeyViolation(rest)
           THEN /\ last' = Returned("delete", t, id, "IntegrityError", {})
                /\ UNCHANGED db
           ELSE /\ db' = rest
                /\ last' = Returned("delete", t, id, "ok", gone)
    /\ UNCHANGED <<now, out>>

\* str(address) / address.get_full_address()
GetFullAddress(id) ==
    /\ \E a \in db["address"] :
          /\ a.id = id
          /\ out' = get_full_address(a, db)
    /\ last' = Returned("get_full_address", "address", id, "ok", {})
    /\ UNCHANGED <<db, now>>

Tick ==
    /\ now < MaxTime
    /\ now' = now + 1
    /\ UNCHANGED <<db, last, out>>

(***************************************************************************)
(* Inputs.  P names the values a caller may put in each kind of field:     *)
(* ids (uuid4 draws), refs (foreign-key values), actors (created_by /      *)
(* updated_by), and the values of the plain fields.                         *)
(***************************************************************************)
Rows(t, P) ==
    CASE t = "state" ->
            [id : P.ids[t], name : P.names, alias : P.aliases,
             created_at : {0}, created_by : P.actors[t], updated_at : {0}, updated_by : P.actors[t]]
      [] t = "address" ->
            [id : P.ids[t], address_line1 : P.lines1, address_line2 : P.lines2, city : P.cities,
             state : P.refs["state"], zip_code : P.zips,
             created_at : {0}, created_by : P.actors[t], updated_at : {0}, updated_by : P.actors[t]]
      [] t = "user" ->
            [id : P.ids[t], user_type : P.user_types, mobile : P.mobiles, gender : P.genders,
             address : P.refs["address"]]
      [] t = "restaurant" ->
            [id : P.ids[t], address : P.refs["address"],
             created_at : {0}, created_by : P.actors[t], updated_at : {0}, updated_by : P.actors[t]]
      [] t = "menu" ->
            [id : P.ids[t], restaurant : P.refs["restaurant"],
             created_at : {0}, created_by : P.actors[t], updated_at : {0}, updated_by : P.actors[t]]
      [] t = "bill" ->
            [id : P.ids[t],
             created_at : {0}, created_by : P.actors[t], updated_at : {0}, updated_by : P.actors[t]]
      [] t = "cart" ->
            [id : P.ids[t], menu : P.refs["menu"], user : P.refs["user"], restaurant : P.refs["restaurant"],
             created_at : {0}, created_by : P.actors[t], updated_at : {0}, updated_by : P.actors[t]]
      [] t = "order" ->
            [id : P.ids[t], user : P.refs["user"], bill : P.refs["bill"], status : P.statuses,
             created_at : {0}, created_by : P.actors[t], updated_at : {0}, updated_by : P.actors[t]]
      [] t = "delivery" ->
            [id : P.ids[t], user : P.refs["user"], delivery_boy : P.refs["user"], user_address : P.refs["address"],
             restaurant : P.refs["restaurant"], bill : P.refs["bill"],
             created_at : {0}, created_by : P.actors[t], updated_at : {0}, updated_by : P.actors[t]]
      [] t = "payment" ->
            [id : P.ids[t], address : P.refs["address"], order : P.refs["order"],
             created_at : {0}, created_by : P.actors[t], updated_at : {0}, updated_by : P.actors[t]]
      [] t = "notification" ->
            [id : P.ids[t], user : P.refs["user"], order : P.refs["order"],
             created_at : {0}, created_by : P.actors[t], updated_at : {0}, updated_by : P.actors[t]]
      [] t = "rating" ->
            [id : P.ids[t], rating : P.ratings, user : P.refs["user"], menu : P.nrefs["menu"],
             restaurant : P.nrefs["restaurant"], delivery_boy : P.refs["user"],
             created_at : {0}, updated_at : {0}, updated_by : P.actors[t]]

SlugPool == <<"ca", "ny", "tx", "wa">>

(***************************************************************************)
(* Spec: rows of all twelve tables are created, rewritten and deleted; the *)
(* plain fields take one valid value each and the clock stands still.      *)
(* created_by / updated_by, declared once for all tables, are filled in    *)
(* on the rows of restaurant (both with the same user) and left NULL       *)
(* elsewhere.                                                               *)
(* A write is tried with every row whose references all resolve (Sound)    *)
(* and with every such row spoilt in one reference: NULL or the id of a    *)
(* row that is not stored (Broken).                                         *)
(***************************************************************************)
Referenced == {"state", "address", "user", "restaurant"}
Pool(t) == IF t \in Referenced THEN 1..MaxId ELSE 1..MaxLeafId

RelP ==
    [ids |-> [t \in Tables |-> Pool(t)],
     refs |-> [t \in Tables |-> Ids(db, t)],
     nrefs |-> [t \in Tables |-> {NULL} \cup Ids(db, t)],
     actors |-> [t \in Tables |-> IF t = "restaurant" THEN {NULL} \cup Ids(db, "user") ELSE {NULL}],
     names |-> {"California"}, aliases |-> {SlugPool[i] : i \in Pool("state")},
     lines1 |-> {"123 Main St"}, lines2 |-> {"Apt 4"}, cities |-> {"Springfield"},
     zips |-> {"90210"}, user_types |-> {CUSTOMER}, mobiles |-> {<<"1">>},
     genders |-> {NULL}, statuses |-> {1}, ratings |-> {1}]

Sound(t) ==
    {r \in Rows(t, RelP) :
        /\ t = "state" => r.alias = SlugPool[r.id]
        /\ t \in HasCreatedBy => r.created_by = r.updated_by}

Broken(t) ==
    UNION { UNION { { [r EXCEPT ![f.field] = v] :
                        v \in (Pool(f.dst) \ Ids(db, f.dst))
                              \cup (IF f.null THEN {} ELSE {NULL}) }
                    : f \in {g \in ForeignKeys : g.src = t} }
            : r \in Sound(t) }

RelInputs(t) == Sound(t) \cup Broken(t)

Next ==
    \/ \E t \in Tables : \E row \in RelInputs(t) : Create(t, row, 0)
    \/ \E t \in Tables : \E row \in RelInputs(t) : Update(t, row)
    \/ \E t \in Tables : \E id \in Pool(t) : Delete(t, id)

Spec == Init /\ [][Next]_vars

(***************************************************************************)
(* SpecState: State rows alone are created, rewritten and deleted while    *)
(* the clock runs; every alias may be given to every row.                   *)
(***************************************************************************)
StateP ==
    [ids |-> [t \in Tables |-> 1..MaxStates],
     actors |-> [t \in Tables |-> {NULL}],
     names |-> {"California"}, aliases |-> {"ca", "ny"}]

StateInputs == Rows("state", StateP)

NextState ==
    \/ \E row \in StateInputs : \E dt \in {0, 1} : Create("state", row, dt)
    \/ \E row \in StateInputs : Update("state", row)
    \/ \E id \in 1..MaxStates : Delete("state", id)
    \/ Tick

SpecState == Init /\ [][NextState]_vars

(***************************************************************************)
(* SpecAddress: State and Address rows with varying names, second lines    *)
(* and postal codes are written and the addresses are formatted.            *)
(***************************************************************************)
AddressP ==
    [ids |-> [t \in Tables |-> 1..MaxAddr],
     refs |-> [t \in Tables |-> {NULL} \cup 1..MaxAddr],
     actors |-> [t \in Tables |-> {NULL}],
     names |-> {"California", "Texas"}, aliases |-> {"ca"},
     lines1 |-> {"123 Main St"}, lines2 |-> {"Apt 4", ""}, cities |-> {"Springfield"},
     zips |-> {"90210", "73301"}]

AddressTables == {"state", "address"}

NextAddress ==
    \/ \E t \in AddressTables : \E row \in Rows(t, AddressP) : Create(t, row, 0)
    \/ \E t \in AddressTables : \E row \in Rows(t, AddressP) : Update(t, row)
    \/ \E t \in AddressTables : \E id \in 1..MaxAddr : Delete(t, id)
    \/ \E id \in 1..MaxAddr : GetFullAddress(id)

SpecAddress == Init /\ [][NextAddress]_vars

(***************************************************************************)
(* SpecFields: State, Address, User, Bill and Order rows are written with  *)
(* valid and invalid values of the validated fields.                        *)
(***************************************************************************)
\* n times the character c
Repeated(c, n) == [i \in 1..n |-> c]

\* every string of at most n characters of alphabet A
RECURSIVE Strings(_, _)
Strings(A, n) ==
    IF n = 0 THEN {<<>>}
    ELSE LET shorter == Strings(A, n - 1)
         IN  shorter \cup {Append(x, c) : x \in shorter, c \in A}

Mobiles ==
    Strings({"1", "-", "a"}, MaxShort)
    \cup {Repeated("1", n) : n \in {User_mobile_max_length, User_mobile_max_length + 1}}
    \cup {<<"-">> \o Repeated("1", User_mobile_max_length - 1)}

FieldsP ==
    [ids |-> [t \in Tables |-> {1}],
     refs |-> [t \in Tables |-> {NULL, 1}],
     actors |-> [t \in Tables |-> {NULL}],
     names |-> {"California"}, aliases |-> {"ca"},
     lines1 |-> {"123 Main St"}, lines2 |-> {"Apt 4"}, cities |-> {"Springfield"},
     zips |-> {"90210"},
     user_types |-> {CUSTOMER, RESTAURANT_OWNER + 1}, mobiles |-> Mobiles,
     genders |-> {NULL, FEMALE, FEMALE + 1}, statuses |-> {0, 1, 7}]

FieldsTables == {"state", "address", "user", "bill", "order"}

NextFields ==
    \/ \E t \in FieldsTables : \E row \in Rows(t, FieldsP) : Create(t, row, 0)
    \/ \E t \in FieldsTables : \E row \in Rows(t, FieldsP) : Update(t, row)
    \/ \E t \in FieldsTables : Delete(t, 1)

SpecFields == Init /\ [][NextFields]_vars

(***************************************************************************)
(* Properties of delete() and of the keys, checked under Spec.              *)
(***************************************************************************)
\* The rows of table t that a step removes.
Removed(t) == {r \in db[t] : r.id \notin Ids(db', t)}

\* The rows of table t whose column c holds id.
Referencing(t, c, id) == {r \in db[t] : r[c] = id}

\* C1, as claimed: a delete removes no row of any other table, except that
\* deleting an Address removes the User rows that reference it.
C1_OnlyUsersCascade ==
    [][last'.op = "delete" =>
        \A t \in Tables :
            \/ Removed(t) = {}
            \/ t = last'.table
            \/ t = "user" /\ last'.table = "address"]_vars

\* C1, amended: a delete removes the deleted row alone, except that deleting
\* an Address also removes the User rows and the Restaurant rows that
\* reference it; rows of no other table are removed.
C1_OnlyAddressCascades ==
    [][last'.op = "delete" =>
        \A t \in Tables :
            IF t = last'.table
            THEN Removed(t) \subseteq {r \in db[t] : r.id = last'.id}
            ELSE IF last'.table = "address" /\ t \in {"user", "restaurant"}
            THEN Removed(t) \subseteq Referencing(t, "address", last'.id)
            ELSE Removed(t) = {}]_vars

\* An Address was deleted with the User and the Restaurant that referenced it,
\* while a User at another Address stays.
C1_Witness ==
    /\ last.op = "delete" /\ last.table = "address" /\ last.result = "ok"
    /\ last.deleted["user"] > 0 /\ last.deleted["restaurant"] > 0
    /\ db["user"] # {}

\* C2: deleting a State that an Address references is rejected with an
\* integrity error and leaves the State, the Addresses and all else unchanged.
C2_ReferencedStateDeleteRejected ==
    [][(/\ last'.op = "delete" /\ last'.table = "state"
        /\ Referencing("address", "state", last'.id) # {})
       => (last'.result = "IntegrityError" /\ db' = db)]_vars

C2_Witness ==
    /\ last.op = "delete" /\ last.table = "state" /\ last.result = "IntegrityError"
    /\ last.id \in Ids(db, "state")
    /\ \E a \in db["address"] : a.state = last.id

\* The users and restaurants at address a, and whether a row other than a and
\* these still refers to a or to one of them.
UsersAt(a) == {u.id : u \in Referencing("user", "address", a)}
RestaurantsAt(a) == {r.id : r \in Referencing("restaurant", "address", a)}
Held(a) ==
    LET U == UsersAt(a)
        R == RestaurantsAt(a)
    IN  \/ \E x \in db["delivery"] :
              x.user_address = a \/ x.user \in U \/ x.delivery_boy \in U \/ x.restaurant \in R
        \/ \E x \in db["payment"] : x.address = a
        \/ \E x \in db["menu"] : x.restaurant \in R
        \/ \E x \in db["cart"] : x.user \in U \/ x.restaurant \in R
        \/ \E x \in db["order"] : x.user \in U
        \/ \E x \in db["notification"] : x.user \in U
        \/ \E x \in db["rating"] : x.user \in U \/ x.delivery_boy \in U \/ x.restaurant \in R
        \/ \E t \in AbstractBase : \E x \in db[t] :
              /\ ~(t = "address" /\ x.id = a)
              /\ ~(t = "restaurant" /\ x.id \in R)
              /\ x.updated_by \in U \/ (t \in HasCreatedBy /\ x.created_by \in U)

\* C3, as claimed: deleting an Address that a User references always succeeds
\* and removes the Address and every User that referenced it.
C3_AddressDeleteAlwaysCascades ==
    [][(/\ last'.op = "delete" /\ last'.table = "address"
        /\ UsersAt(last'.id) # {})
       => (/\ last'.result = "ok"
           /\ last'.id \notin Ids(db', "address")
           /\ \A u \in db'["user"] : u.address # last'.id)]_vars

\* C3, amended: deleting an Address that a User references removes the Address
\* and every User (and Restaurant) that referenced it when no other row refers
\* to the Address or to one of those Users or Restaurants; otherwise it is
\* rejected with an integrity error and nothing is removed.
C3_AddressDeleteCascadesUnlessHeld ==
    [][(/\ last'.op = "delete" /\ last'.table = "address"
        /\ UsersAt(last'.id) # {})
       => IF Held(last'.id)
          THEN last'.result = "IntegrityError" /\ db' = db
          ELSE /\ last'.result = "ok"
               /\ last'.id \notin Ids(db', "address")
               /\ \A u \in db'["user"] : u.address # last'.id
               /\ \A r \in db'["restaurant"] : r.address # last'.id
               /\ Ids(db', "user") = Ids(db, "user") \ UsersAt(last'.id)]_vars

C3_Witness ==
    /\ last.op = "delete" /\ last.table = "address" /\ last.result = "ok"
    /\ last.deleted["user"] > 0
    /\ last.id \notin Ids(db, "address")
    /\ db["user"] # {}

\* C4: no two rows of a table share an id, and a write of a stored row leaves
\* every id (and the number of rows) of every table as it was.
UniqueIds == \A t \in Tables : \A r1, r2 \in db[t] : r1.id = r2.id => r1 = r2

C4_IdUniqueAndStable ==
    /\ []UniqueIds
    /\ [][last'.op = "update" =>
            \A t \in Tables :
                /\ Ids(db', t) = Ids(db, t)
                /\ Cardinality(db'[t]) = Cardinality(db[t])]_vars

C4_Witness ==
    /\ last.op = "update" /\ last.result = "ok"
    /\ \E t \in Tables : Cardinality(db[t]) > 1 /\ last.table = t

\* C10: every non-null foreign key of every stored row refers to a stored
\* row, and a delete that is rejected removes nothing.
Stored(v, t) == v \in Ids(db, t)
StoredOrNull(v, t) == v = NULL \/ v \in Ids(db, t)

NoDangling ==
    /\ \A x \in db["address"] : Stored(x.state, "state")
    /\ \A x \in db["user"] : Stored(x.address, "address")
    /\ \A x \in db["restaurant"] : Stored(x.address, "address")
    /\ \A x \in db["menu"] : Stored(x.restaurant, "restaurant")
    /\ \A x \in db["cart"] :
          Stored(x.menu, "menu") /\ Stored(x.user, "user") /\ Stored(x.restaurant, "restaurant")
    /\ \A x \in db["order"] : Stored(x.user, "user") /\ Stored(x.bill, "bill")
    /\ \A x \in db["delivery"] :
          /\ Stored(x.user, "user") /\ Stored(x.delivery_boy, "user")
          /\ Stored(x.user_address, "address")
          /\ Stored(x.restaurant, "restaurant") /\ Stored(x.bill, "bill")
    /\ \A x \in db["payment"] : Stored(x.address, "address") /\ Stored(x.order, "order")
    /\ \A x \in db["notification"] : Stored(x.user, "user") /\ Stored(x.order, "order")
    /\ \A x \in db["rating"] :
          /\ Stored(x.user, "user") /\ Stored(x.delivery_boy, "user")
          /\ StoredOrNull(x.menu, "menu") /\ StoredOrNull(x.restaurant, "restaurant")
    /\ \A t \in AbstractBase : \A x \in db[t] :
          /\ StoredOrNull(x.updated_by, "user")
          /\ t \in HasCreatedBy => StoredOrNull(x.created_by, "user")

C10_ReferentialIntegrity ==
    /\ []NoDangling
    /\ [][(last'.op = "delete" /\ last'.result # "ok") => db' = db]_vars

\* A delete was rejected because a Cart, Order, Delivery, Payment or
\* Notification row would have been left dangling.
C10_Witness ==
    /\ last.op = "delete" /\ last.result = "IntegrityError"
    /\ \E t \in {"cart", "order", "delivery", "payment", "notification"} : db[t] # {}
    /\ last.table \in {"user", "restaurant", "menu", "bill", "order"}

AliasUnique == \A r1, r2 \in db["state"] : r1.alias = r2.alias => r1.id = r2.id

AliasTaken(row) == \E r \in db["state"] : r.id # row.id /\ r.alias = row.alias

C9_AliasUnique ==
    /\ []AliasUnique
    /\ [][\A row \in StateInputs :
            (/\ AliasTaken(row)
             /\ \/ Update("state", row)
                \/ \E dt \in {0, 1} : Create("state", row, dt))
            => (last'.result = "IntegrityError" /\ db' = db)]_vars

\* With two State rows stored, a rewrite of one was rejected: its alias is the
\* other's (nothing else can fail on a State row here).
C9_Witness ==
    /\ last.op = "update" /\ last.table = "state" /\ last.result = "IntegrityError"
    /\ Cardinality(db["state"]) = 2

(***************************************************************************)
(* Properties of get_full_address(), checked under SpecAddress.             *)
(***************************************************************************)
TheAddress == CHOOSE a \in db["address"] : a.id = last.id
TheState == CHOOSE s \in db["state"] : s.id = TheAddress.state

\* C5, as claimed: the five parts in the order line 1, line 2, state name,
\* city, postal code, every two neighbours separated by ", ".
C5_AllCommaSeparated ==
    last.op = "get_full_address" =>
        out = TheAddress.address_line1 \o ", " \o TheAddress.address_line2 \o ", "
              \o TheState.name \o ", " \o TheAddress.city \o ", " \o TheAddress.zip_code

\* C5, amended: the same order, with ", " between neighbours except between
\* city and postal code, which a single space separates; the example address
\* reads "123 Main St, Apt 4, California, Springfield 90210".
C5_CityThenSpaceThenZip ==
    last.op = "get_full_address" =>
        /\ out = TheAddress.address_line1 \o ", " \o TheAddress.address_line2 \o ", "
                 \o TheState.name \o ", " \o TheAddress.city \o " " \o TheAddress.zip_code
        /\ (/\ TheAddress.address_line1 = "123 Main St"
            /\ TheAddress.address_line2 = "Apt 4"
            /\ TheState.name = "California"
            /\ TheAddress.city = "Springfield"
            /\ TheAddress.zip_code = "90210")
           => out = "123 Main St, Apt 4, California, Springfield 90210"

C5_Witness ==
    /\ last.op = "get_full_address"
    /\ TheAddress.address_line2 = "Apt 4" /\ TheAddress.zip_code = "90210"
    /\ TheState.name = "California"
    /\ out = "123 Main St, Apt 4, California, Springfield 90210"

(***************************************************************************)
(* Properties of the validated fields, checked under SpecFields.            *)
(***************************************************************************)
\* C6: no stored User has a mobile longer than 15 characters or with a
\* character other than the digits 0-9.
C6_MobileDigitsOnly ==
    \A u \in db["user"] :
        /\ Len(u.mobile) <= 15
        /\ \A i \in 1..Len(u.mobile) : u.mobile[i] \in Digits

\* C7: every stored Order has a status among the declared status codes.
C7_StatusAmongDeclaredChoices ==
    \A o \in db["order"] :
        /\ Order_status_choices.declared
        /\ o.status \in Order_status_choices.values

====
